---- MODULE Spec2Model ----
(***************************************************************************)
(* Tabular actor-critic trainer with eligibility traces (src/rl/acm.py).   *)
(* The model follows ACM.fit line by line: the episode loop, the step      *)
(* loop, the sweep over the episode history, and the table operations of   *)
(* TableBasedActor and TableBasedCritic.  Real numbers are exact rationals *)
(* <<numerator, denominator>>; every number used is dyadic, so the Python  *)
(* float arithmetic of the source is exact on the same inputs.             *)
(***************************************************************************)
EXTENDS Integers, Sequences, FiniteSets, TLC

(* ------------------------------------------------------------------ *)
(* Bounds of the model                                                *)
(* ------------------------------------------------------------------ *)
MaxEpisodes == 3
MaxSteps == 3
\* configurations explored: episodes * (steps + 1) <= MaxWork, the number of
\* states a Domain hands out during one run
MaxWork == 4
MaxFitCalls == 2

(* ------------------------------------------------------------------ *)
(* Exact rational arithmetic                                          *)
(* ------------------------------------------------------------------ *)
Abs(n) == IF n < 0 THEN -n ELSE n

RECURSIVE GCD(_, _)
GCD(a, b) == IF b = 0 THEN a ELSE GCD(b, a % b)

Norm(n, d) == LET g == GCD(Abs(n), d) IN <<n \div g, d \div g>>

Zero == <<0, 1>>
One == <<1, 1>>
Half == <<1, 2>>

RAdd(x, y) ==
    LET g == GCD(x[2], y[2])
        l == (x[2] \div g) * y[2]
    IN Norm(x[1] * (l \div x[2]) + y[1] * (l \div y[2]), l)

RNeg(x) == <<-x[1], x[2]>>

RSub(x, y) == RAdd(x, RNeg(y))

RMul(x, y) == Norm(x[1] * y[1], x[2] * y[2])

RDivInt(x, k) == Norm(x[1], x[2] * k)

\* x < y over the common denominator (keeps the products small)
RLess(x, y) ==
    LET g0 == GCD(x[2], y[2])
        g == IF g0 = 0 THEN 1 ELSE g0
    IN x[1] * (y[2] \div g) < y[1] * (x[2] \div g)

\* -math.inf: below every rational under RLess
NegInf == <<-1, 0>>

RECURSIVE RPow(_, _)
RPow(x, k) == IF k = 0 THEN One ELSE RMul(x, RPow(x, k - 1))

(* ------------------------------------------------------------------ *)
(* Configuration (ACM.__init__)                                       *)
(* ------------------------------------------------------------------ *)
actor_lr == Half
critic_lr == Half
decay_factor == Half
discount_rate == Half
epsilon_decay == Half
ConfigEpsilons == {Zero, One}
CriticTypes == {"table", "nn"}

(* ------------------------------------------------------------------ *)
(* The Domain (external collaborator, src/rl/environment.py)          *)
(* ------------------------------------------------------------------ *)
States == {"S0", "S1", "T"}
TerminalStates == {"T"}
None == "None"
ValueError == "ValueError"

\* the legal-action lists a Domain may hand out for a state
LegalLists(s) ==
    CASE s = "S0" -> {<<"a", "b">>}
      [] s = "S1" -> {<<"a">>, <<>>}
      [] OTHER -> {<<>>, <<"a">>}

\* the reinforcement a Domain may emit for a transition into s
Reinforcements(s) == IF s \in TerminalStates THEN {Zero, One} ELSE {Zero}

\* outcomes of np.random.uniform() for a new critic value
UniformDraws == {Zero, Half}

is_current_state_terminal(d) == d \in TerminalStates

VARIABLES
    max_episodes, steps, critic_type, epsilon,   \* fields of the ACM object
    config_epsilon,                              \* config["epsilon"]
    pc, err, fit_calls,                          \* position inside fit, raised error
    actor, critic,                               \* locals of fit: the two learners
    episode_count, current_state, current_action,
    episode, step, successor_state, successor_action,
    reinforcement, td_error, idx,
    dom_state,                                   \* Domain: its current state
    dom_calls,                                   \* Domain calls of this loop iteration
    proposed                                     \* last propose_action call: <<state, result>>

vars == <<max_episodes, steps, critic_type, epsilon, config_epsilon, pc, err,
          fit_calls, actor, critic, episode_count, current_state,
          current_action, episode, step, successor_state, successor_action,
          reinforcement, td_error, idx, dom_state, dom_calls, proposed>>

(* ------------------------------------------------------------------ *)
(* Tables                                                             *)
(* ------------------------------------------------------------------ *)
EmptyTable == [k \in {} |-> Zero]

SetKey(f, k, v) == [x \in (DOMAIN f) \cup {k} |-> IF x = k THEN v ELSE f[x]]

\* TableBasedActor.__init__
NewActor == [policy |-> EmptyTable, eligibilities |-> EmptyTable,
             state_actions |-> [s \in {} |-> <<>>]]

\* TableBasedCritic.__init__
NewCritic == [state_values |-> EmptyTable, eligibilities |-> EmptyTable]

\* NNBasedCritic(): an object without any method
NNCritic == [nn |-> TRUE]

ActionKeys(state, actions) == {<<state, actions[i]>> : i \in 1..Len(actions)}

\* add_state without its "not in" tests: registered keys are overwritten
ActorAddStateOverwrite(a, state, actions) ==
    LET keys == ActionKeys(state, actions) IN
    [state_actions |-> SetKey(a.state_actions, state, actions),
     policy |-> [k \in (DOMAIN a.policy) \cup keys |->
                    IF k \in keys THEN Zero ELSE a.policy[k]],
     eligibilities |-> [k \in (DOMAIN a.eligibilities) \cup keys |->
                    IF k \in keys THEN Zero ELSE a.eligibilities[k]]]

\* TableBasedActor.add_state
ActorAddState(a, state, actions) ==
    LET keys == ActionKeys(state, actions) IN
    [state_actions |-> SetKey(a.state_actions, state, actions),
     policy |-> [k \in (DOMAIN a.policy) \cup keys |->
                    IF k \in DOMAIN a.policy THEN a.policy[k] ELSE Zero],
     eligibilities |-> [k \in (DOMAIN a.eligibilities) \cup keys |->
                    IF k \in DOMAIN a.eligibilities THEN a.eligibilities[k] ELSE Zero]]

\* reset_eligibilities that forgets to write the zero back
ActorResetEligibilitiesKeep(a) == a

\* TableBasedActor.reset_eligibilities
ActorResetEligibilities(a) ==
    [a EXCEPT !.eligibilities = [k \in DOMAIN a.eligibilities |-> Zero]]

\* greedy scan with >= in place of >: the last of several maximizers wins
RECURSIVE GreedyScanLastTie(_, _, _, _, _, _)
GreedyScanLastTie(a, state, actions, i, best_action, max_value) ==
    IF i > Len(actions) THEN best_action
    ELSE LET state_value == RDivInt(a.policy[<<state, actions[i]>>], Len(actions))
         IN IF ~RLess(state_value, max_value)
            THEN GreedyScanLastTie(a, state, actions, i + 1, actions[i], state_value)
            ELSE GreedyScanLastTie(a, state, actions, i + 1, best_action, max_value)

\* the greedy scan of propose_action: strict > against the running maximum
RECURSIVE GreedyScan(_, _, _, _, _, _)
GreedyScan(a, state, actions, i, best_action, max_value) ==
    IF i > Len(actions) THEN best_action
    ELSE LET state_value == RDivInt(a.policy[<<state, actions[i]>>], Len(actions))
         IN IF RLess(max_value, state_value)
            THEN GreedyScan(a, state, actions, i + 1, actions[i], state_value)
            ELSE GreedyScan(a, state, actions, i + 1, best_action, max_value)

\* TableBasedActor.propose_action: the set of results the random source allows
ProposeAction(a, state, eps) ==
    LET actions == a.state_actions[state]
        explore == IF eps = Zero THEN {}
                   ELSE IF Len(actions) = 0 THEN {ValueError}
                   ELSE {actions[i] : i \in 1..Len(actions)}
        exploit == IF eps = One THEN {}
                   ELSE {GreedyScan(a, state, actions, 1, None, NegInf)}
    IN explore \cup exploit

\* TableBasedActor.update_policy
ActorUpdatePolicy(a, state, action, learning_rate, td) ==
    [a EXCEPT !.policy[<<state, action>>] =
        RAdd(@, RMul(RMul(learning_rate, td), a.eligibilities[<<state, action>>]))]

\* TableBasedActor.update_eligibilities
ActorUpdateEligibilities(a, state, action, discount, decay) ==
    [a EXCEPT !.eligibilities[<<state, action>>] = RMul(@, RMul(discount, decay))]

\* TableBasedCritic.add_state; u is the outcome of np.random.uniform()
CriticAddState(c, state, u) ==
    [state_values |-> IF state \in DOMAIN c.state_values THEN c.state_values
                      ELSE SetKey(c.state_values, state, u),
     eligibilities |-> IF state \in DOMAIN c.eligibilities THEN c.eligibilities
                       ELSE SetKey(c.eligibilities, state, Zero)]

\* reset_eligibilities that leaves the traces of the episode before in place
CriticResetEligibilitiesKeep(c) == c

\* reset_eligibilities that replaces the whole critic by a fresh one
CriticResetAll(c) == NewCritic

\* TableBasedCritic.reset_eligibilities
CriticResetEligibilities(c) ==
    [c EXCEPT !.eligibilities = [k \in DOMAIN c.eligibilities |-> Zero]]

\* TD error that leaves the discount out of the successor's value
ComputeTdErrorNoDiscount(c, cur, succ, reward, discount) ==
    RSub(RAdd(reward, c.state_values[succ]), c.state_values[cur])

\* TableBasedCritic.compute_td_error
ComputeTdError(c, cur, succ, reward, discount) ==
    RSub(RAdd(reward, RMul(discount, c.state_values[succ])), c.state_values[cur])

\* TableBasedCritic.update_value_function
CriticUpdateValueFunction(c, state, learning_rate, td) ==
    [c EXCEPT !.state_values[state] =
        RAdd(@, RMul(RMul(learning_rate, td), c.eligibilities[state]))]

\* TableBasedCritic.update_eligibilities
CriticUpdateEligibilities(c, state, discount, decay) ==
    [c EXCEPT !.eligibilities[state] = RMul(@, RMul(discount, decay))]

\* accumulating trace: eligibilities[key] += 1 instead of = 1
MarkActorAccumulate(a, state, action) ==
    [a EXCEPT !.eligibilities =
        SetKey(@, <<state, action>>,
               IF <<state, action>> \in DOMAIN @ THEN RAdd(@[<<state, action>>], One)
               ELSE One)]

\* the orchestrator's direct assignments: eligibilities[key] = 1
MarkActor(a, state, action) ==
    [a EXCEPT !.eligibilities = SetKey(@, <<state, action>>, One)]

MarkCritic(c, state) ==
    [c EXCEPT !.eligibilities = SetKey(@, state, One)]

\* self.epsilon *= self.epsilon_decay
DecayEpsilon(e) == RMul(e, epsilon_decay)

\* the while condition of the step loop, and the Domain query it makes
StepLimitOpen == step < steps

ContinueEpisode == StepLimitOpen /\ ~is_current_state_terminal(dom_state)

\* visualise only when the episode is both the first and the last
VisualiseDueBoth(count, total) == count = total - 1 /\ count = 0

\* visualise only at the first and the last episode
VisualiseDue(count, total) == count = total - 1 \/ count = 0

(* ------------------------------------------------------------------ *)
(* Initial state: a constructed ACM, fit not yet called               *)
(* ------------------------------------------------------------------ *)
Init ==
    /\ max_episodes \in 0..MaxEpisodes
    /\ steps \in 0..MaxSteps
    /\ max_episodes * (steps + 1) <= MaxWork
    /\ critic_type \in CriticTypes
    /\ config_epsilon \in ConfigEpsilons
    /\ epsilon = config_epsilon
    /\ pc = "idle"
    /\ err = "none"
    /\ fit_calls = 0
    /\ actor = NewActor
    /\ critic = NewCritic
    /\ episode_count = 0
    /\ current_state = "none"
    /\ current_action = None
    /\ episode = <<>>
    /\ step = 0
    /\ successor_state = "none"
    /\ successor_action = None
    /\ reinforcement = Zero
    /\ td_error = Zero
    /\ idx = 0
    /\ dom_state = "none"
    /\ dom_calls = <<>>
    /\ proposed = <<"none", None>>

Fields == <<max_episodes, steps, critic_type, config_epsilon>>

\* ACM.fit is called: lines 30-39
Fit ==
    /\ pc \in {"idle", "error"}
    /\ fit_calls < MaxFitCalls
    /\ fit_calls' = fit_calls + 1
    /\ pc' = "loop"
    /\ err' = "none"
    /\ actor' = NewActor
    /\ critic' = IF critic_type = "table" THEN NewCritic ELSE NNCritic
    /\ episode_count' = 0
    /\ current_state' = "none"
    /\ current_action' = None
    /\ episode' = <<>>
    /\ step' = 0
    /\ successor_state' = "none"
    /\ successor_action' = None
    /\ reinforcement' = Zero
    /\ td_error' = Zero
    /\ idx' = 0
    /\ dom_calls' = <<>>
    /\ proposed' = <<"none", None>>
    /\ UNCHANGED <<Fields, epsilon, dom_state>>

\* the episode loop is exhausted: fit returns, its locals are gone
FitReturn ==
    /\ pc = "loop"
    /\ episode_count >= max_episodes
    /\ pc' = "idle"
    /\ actor' = NewActor
    /\ critic' = NewCritic
    /\ current_state' = "none"
    /\ current_action' = None
    /\ episode' = <<>>
    /\ step' = 0
    /\ successor_state' = "none"
    /\ successor_action' = None
    /\ reinforcement' = Zero
    /\ td_error' = Zero
    /\ idx' = 0
    /\ proposed' = <<"none", None>>
    /\ dom_calls' = <<>>
    /\ UNCHANGED <<Fields, epsilon, err, fit_calls, episode_count, dom_state>>

\* episode init with the unimplemented critic: line 45 raises
EpisodeInitNN ==
    /\ pc = "loop"
    /\ episode_count < max_episodes
    /\ critic_type # "table"
    /\ actor' = ActorResetEligibilities(actor)
    /\ pc' = "error"
    /\ err' = "AttributeError"
    /\ dom_calls' = <<>>
    /\ UNCHANGED <<Fields, epsilon, fit_calls, critic, episode_count, current_state,
                   current_action, episode, step, successor_state, successor_action,
                   reinforcement, td_error, idx, dom_state, proposed>>

\* episode init: lines 40-56
EpisodeInit ==
    /\ pc = "loop"
    /\ episode_count < max_episodes
    /\ critic_type = "table"
    /\ \E s0 \in States, u \in UniformDraws :
       \E actions \in LegalLists(s0) :
         LET actor1 == ActorAddState(ActorResetEligibilities(actor), s0, actions)
             critic1 == CriticAddState(CriticResetEligibilities(critic), s0, u)
         IN \E a \in ProposeAction(actor1, s0, epsilon) :
              /\ dom_state' = s0
              /\ dom_calls' = <<<<"produce_initial_state", None>>>>
              /\ current_state' = s0
              /\ actor' = actor1
              /\ critic' = critic1
              /\ proposed' = <<s0, a>>
              /\ IF a = ValueError
                 THEN /\ pc' = "error"
                      /\ err' = ValueError
                      /\ UNCHANGED <<current_action, episode, step>>
                 ELSE /\ pc' = "while"
                      /\ err' = "none"
                      /\ current_action' = a
                      /\ episode' = <<>>
                      /\ step' = 0
    /\ UNCHANGED <<Fields, epsilon, fit_calls, episode_count, successor_state,
                   successor_action, reinforcement, td_error, idx>>

\* one pass of the step loop up to the sweep: lines 57-82
Step ==
    /\ pc = "while"
    /\ ContinueEpisode
    /\ \E succ \in States, u \in UniformDraws :
       \E actions \in LegalLists(succ), r \in Reinforcements(succ) :
         LET actor1 == ActorAddState(actor, succ, actions)
             critic1 == CriticAddState(critic, succ, u)
         IN \E a \in ProposeAction(actor1, succ, epsilon) :
              /\ step' = step + 1
              /\ episode' = Append(episode, <<current_state, current_action>>)
              /\ dom_state' = succ
              /\ dom_calls' = dom_calls \o <<<<"is_current_state_terminal", FALSE>>,
                                             <<"generate_child_state", current_action>>>>
              /\ successor_state' = succ
              /\ reinforcement' = r
              /\ proposed' = <<succ, a>>
              /\ IF a = ValueError
                 THEN /\ pc' = "error"
                      /\ err' = ValueError
                      /\ actor' = actor1
                      /\ critic' = critic1
                      /\ UNCHANGED <<successor_action, td_error, idx>>
                 ELSE /\ pc' = "sweep"
                      /\ err' = "none"
                      /\ successor_action' = a
                      /\ actor' = MarkActor(actor1, current_state, current_action)
                      /\ td_error' = ComputeTdError(critic1, current_state, succ,
                                                    r, discount_rate)
                      /\ critic' = MarkCritic(critic1, current_state)
                      /\ idx' = 1
    /\ UNCHANGED <<Fields, epsilon, fit_calls, episode_count, current_state, current_action>>

\* sweep entry that decays each trace before it is used by the update
SweepEntryDecayFirst ==
    /\ pc = "sweep"
    /\ idx <= Len(episode)
    /\ LET state == episode[idx][1]
           action == episode[idx][2]
           critic1 == CriticUpdateValueFunction(
                          CriticUpdateEligibilities(critic, state, discount_rate, decay_factor),
                          state, critic_lr, td_error)
       IN /\ critic' = critic1
          /\ IF <<state, action>> \in DOMAIN actor.policy
             THEN /\ actor' = ActorUpdatePolicy(
                                  ActorUpdateEligibilities(actor, state, action,
                                                           discount_rate, decay_factor),
                                  state, action, actor_lr, td_error)
                  /\ idx' = idx + 1
                  /\ UNCHANGED <<pc, err>>
             ELSE /\ pc' = "error"
                  /\ err' = "KeyError"
                  /\ UNCHANGED <<actor, idx>>
    /\ UNCHANGED <<Fields, epsilon, fit_calls, episode_count, current_state, current_action,
                   episode, step, successor_state, successor_action, reinforcement, td_error,
                   dom_state, dom_calls, proposed>>

\* one entry of the sweep over the episode history: lines 85-91
SweepEntry ==
    /\ pc = "sweep"
    /\ idx <= Len(episode)
    /\ LET state == episode[idx][1]
           action == episode[idx][2]
           critic1 == CriticUpdateEligibilities(
                          CriticUpdateValueFunction(critic, state, critic_lr, td_error),
                          state, discount_rate, decay_factor)
       IN /\ critic' = critic1
          /\ IF <<state, action>> \in DOMAIN actor.policy
             THEN /\ actor' = ActorUpdateEligibilities(
                                  ActorUpdatePolicy(actor, state, action, actor_lr, td_error),
                                  state, action, discount_rate, decay_factor)
                  /\ idx' = idx + 1
                  /\ UNCHANGED <<pc, err>>
             ELSE /\ pc' = "error"
                  /\ err' = "KeyError"
                  /\ UNCHANGED <<actor, idx>>
    /\ UNCHANGED <<Fields, epsilon, fit_calls, episode_count, current_state, current_action,
                   episode, step, successor_state, successor_action, reinforcement, td_error,
                   dom_state, dom_calls, proposed>>

\* advance that keeps the action of the step before
AdvanceStaleAction ==
    /\ pc = "sweep"
    /\ idx > Len(episode)
    /\ current_state' = successor_state
    /\ pc' = "while"
    /\ UNCHANGED <<Fields, epsilon, err, fit_calls, actor, critic, episode_count, episode,
                   step, successor_state, successor_action, reinforcement, td_error, idx, dom_state,
                   dom_calls, proposed, current_action>>

\* the sweep is over: lines 93-94
Advance ==
    /\ pc = "sweep"
    /\ idx > Len(episode)
    /\ current_state' = successor_state
    /\ current_action' = successor_action
    /\ pc' = "while"
    /\ UNCHANGED <<Fields, epsilon, err, fit_calls, actor, critic, episode_count, episode,
                   step, successor_state, successor_action, reinforcement, td_error, idx, dom_state,
                   dom_calls, proposed>>

\* the step loop ends; episode end: lines 57, 96-110
EpisodeEnd ==
    /\ pc = "while"
    /\ ~ContinueEpisode
    /\ epsilon' = DecayEpsilon(epsilon)
    /\ dom_calls' = dom_calls
          \o (IF StepLimitOpen THEN <<<<"is_current_state_terminal", TRUE>>>> ELSE <<>>)
          \o (IF VisualiseDue(episode_count, max_episodes)
              THEN <<<<"visualise", None>>>> ELSE <<>>)
    /\ episode_count' = episode_count + 1
    /\ pc' = "loop"
    /\ UNCHANGED <<Fields, err, fit_calls, actor, critic, current_state, current_action,
                   episode, step, successor_state, successor_action, reinforcement, td_error, idx,
                   dom_state, proposed>>

Next ==
    \/ Fit
    \/ FitReturn
    \/ EpisodeInitNN
    \/ EpisodeInit
    \/ Step
    \/ SweepEntry
    \/ Advance
    \/ EpisodeEnd

Spec == Init /\ [][Next]_vars

(* ================================================================== *)
(* Properties                                                         *)
(* ================================================================== *)
TableRun == critic_type = "table"

InRun == pc \in {"loop", "while", "sweep"}

EpisodeStart == TableRun /\ pc = "while" /\ step = 0

SweepStart == pc = "sweep" /\ idx = 1

SweepDone == pc = "sweep" /\ idx > Len(episode)

AllZero(t) == \A k \in DOMAIN t : t[k] = Zero

\* the lists add_state is tried on
AddLists == {<<>>, <<"a">>, <<"b">>, <<"a", "b">>, <<"b", "a">>, <<"a", "a">>}

\* C1: at the start of every episode (after episode init, before its first
\* step) every actor trace and every critic trace is 0, whatever earlier
\* episodes left; reset_eligibilities zeroes every existing trace entry and
\* changes no preference or value.
C1_TracesZeroAtEpisodeStart ==
    /\ EpisodeStart => AllZero(actor.eligibilities) /\ AllZero(critic.eligibilities)
    /\ LET r == ActorResetEligibilities(actor)
       IN /\ DOMAIN r.eligibilities = DOMAIN actor.eligibilities
          /\ AllZero(r.eligibilities)
          /\ r.policy = actor.policy
          /\ r.state_actions = actor.state_actions
    /\ (TableRun /\ pc # "idle") =>
          LET r == CriticResetEligibilities(critic)
          IN /\ DOMAIN r.eligibilities = DOMAIN critic.eligibilities
             /\ AllZero(r.eligibilities)
             /\ r.state_values = critic.state_values

\* a second episode starts after the first one learned something
C1_Witness ==
    /\ EpisodeStart
    /\ episode_count >= 1
    /\ \E k \in DOMAIN actor.policy : actor.policy[k] # Zero
    /\ \E s \in DOMAIN critic.state_values : critic.state_values[s] \notin UniformDraws

\* C2: in every state of a training run the actor's trace table and policy
\* table have the same keys, and the critic's trace table and value table
\* have the same keys, also after the direct assignments of traces to 1.
C2_KeySetsAgree ==
    (TableRun /\ pc # "idle") =>
        /\ DOMAIN actor.eligibilities = DOMAIN actor.policy
        /\ DOMAIN critic.eligibilities = DOMAIN critic.state_values

\* C3: add_state leaves every registered preference, value and trace as it
\* is, gives keys not yet present preference 0 and trace 0 (critic: the drawn
\* value and trace 0), and a second call with the same arguments changes
\* nothing more.
C3_AddStateIdempotent ==
    (TableRun /\ pc # "idle") =>
        /\ \A s \in States, actions \in AddLists :
             LET a1 == ActorAddState(actor, s, actions)
                 keys == ActionKeys(s, actions)
             IN /\ DOMAIN a1.policy = (DOMAIN actor.policy) \cup keys
                /\ DOMAIN a1.eligibilities = (DOMAIN actor.eligibilities) \cup keys
                /\ \A k \in DOMAIN actor.policy : a1.policy[k] = actor.policy[k]
                /\ \A k \in DOMAIN actor.eligibilities :
                       a1.eligibilities[k] = actor.eligibilities[k]
                /\ \A k \in keys \ DOMAIN actor.policy : a1.policy[k] = Zero
                /\ \A k \in keys \ DOMAIN actor.eligibilities : a1.eligibilities[k] = Zero
                /\ ActorAddState(a1, s, actions) = a1
        /\ \A s \in States, u \in UniformDraws :
             LET c1 == CriticAddState(critic, s, u)
             IN /\ DOMAIN c1.state_values = (DOMAIN critic.state_values) \cup {s}
                /\ DOMAIN c1.eligibilities = (DOMAIN critic.eligibilities) \cup {s}
                /\ \A k \in DOMAIN critic.state_values :
                       c1.state_values[k] = critic.state_values[k]
                /\ \A k \in DOMAIN critic.eligibilities :
                       c1.eligibilities[k] = critic.eligibilities[k]
                /\ s \notin DOMAIN critic.eligibilities => c1.eligibilities[s] = Zero
                /\ s \notin DOMAIN critic.state_values => c1.state_values[s] = u
                /\ \A u2 \in UniformDraws : CriticAddState(c1, s, u2) = c1

\* a step has just registered a successor that already had a learned
\* preference, a learned value and a live trace
C3_Witness ==
    /\ TableRun
    /\ SweepStart
    /\ step >= 2
    /\ \E i \in 1..Len(episode) - 1 : episode[i][1] = successor_state
    /\ \E k \in DOMAIN actor.policy :
          /\ k[1] = successor_state
          /\ actor.policy[k] # Zero
          /\ actor.eligibilities[k] \notin {Zero, One}
    /\ critic.state_values[successor_state] \notin UniformDraws

\* C4: during a training run the policy table and the value table only
\* grow, across steps and episode boundaries, and episode init leaves every
\* preference and value as it was.
C4_TablesOnlyGrow ==
    [][(TableRun /\ InRun /\ pc' # "idle") =>
          /\ (DOMAIN actor.policy) \subseteq DOMAIN actor'.policy
          /\ (DOMAIN critic.state_values) \subseteq DOMAIN critic'.state_values
          /\ pc = "loop" =>
                /\ \A k \in DOMAIN actor.policy : actor'.policy[k] = actor.policy[k]
                /\ \A s \in DOMAIN critic.state_values :
                       critic'.state_values[s] = critic.state_values[s]]_vars

\* a later episode has started and the learned entries of the first are there
C4_Witness ==
    /\ EpisodeStart
    /\ episode_count >= 1
    /\ Cardinality(DOMAIN critic.state_values) >= 2
    /\ \E k \in DOMAIN actor.policy : actor.policy[k] # Zero /\ k[1] # current_state
    /\ \E s \in DOMAIN critic.state_values :
          s # current_state /\ critic.state_values[s] \notin UniformDraws

\* C5: after E completed episodes of a training run epsilon equals
\* initial_epsilon * epsilon_decay^E.
C5_EpsilonSchedule ==
    InRun => epsilon = RMul(config_epsilon, RPow(epsilon_decay, episode_count))

\* C6: every call of fit starts from the initial state: empty policy, value
\* and trace tables and epsilon at its configured starting value.
C6_FitStartsFromInitialState ==
    (TableRun /\ pc = "loop" /\ episode_count = 0) =>
        /\ actor = NewActor
        /\ critic = NewCritic
        /\ epsilon = config_epsilon

\* the last is_current_state_terminal answer of this loop iteration
LastTerminalAnswer ==
    LET S == {i \in 1..Len(dom_calls) : dom_calls[i][1] = "is_current_state_terminal"}
    IN IF S = {} THEN "none"
       ELSE dom_calls[CHOOSE i \in S : \A j \in S : j <= i][2]

\* C7: with a table critic fit ends after exactly `episodes` episodes, no
\* episode takes more than `steps` steps, an episode with fewer steps ended
\* on a terminal answer of the Domain, and nothing else ends an episode or
\* the run.
C7_RunEndsOnlyByCount ==
    TableRun =>
        /\ pc # "error"
        /\ step <= steps
        /\ (pc = "idle" /\ fit_calls > 0) => episode_count = max_episodes
        /\ (pc = "loop" /\ episode_count > 0 /\ step < steps) => LastTerminalAnswer = TRUE

CallOps == [i \in 1..Len(dom_calls) |-> dom_calls[i][1]]

\* C8: per episode produce_initial_state is called once and first; every
\* generate_child_state directly follows an is_current_state_terminal query
\* answered false; the action passed is the one the Actor last proposed, and
\* proposed for the current state.
C8_DomainProtocol ==
    /\ [](TableRun =>
          /\ pc \in {"while", "sweep"} => dom_calls # <<>>
          /\ dom_calls # <<>> =>
                /\ CallOps[1] = "produce_initial_state"
                /\ \A i \in 2..Len(dom_calls) : CallOps[i] # "produce_initial_state"
          /\ \A i \in 1..Len(dom_calls) :
                CallOps[i] = "generate_child_state" =>
                    /\ i > 1
                    /\ dom_calls[i - 1] = <<"is_current_state_terminal", FALSE>>)
    /\ [][(pc = "while" /\ pc' \in {"sweep", "error"}) =>
             /\ ~is_current_state_terminal(dom_state)
             /\ proposed[1] = current_state
             /\ dom_calls'[Len(dom_calls')] = <<"generate_child_state", proposed[2]>>]_vars

\* the second step of an episode has called the Domain with an action that
\* differs from the first step's
C8_Witness ==
    /\ TableRun
    /\ SweepStart
    /\ step = 2
    /\ Len(dom_calls) = 5
    /\ dom_calls[3][2] # dom_calls[5][2]

RECURSIVE LastIndex(_, _, _)
LastIndex(seq, x, i) ==
    IF i = 0 THEN 0 ELSE IF seq[i] = x THEN i ELSE LastIndex(seq, x, i - 1)

VisitedStates == [i \in 1..Len(episode) |-> episode[i][1]]

\* C9: every step decays the trace of every visited pair, and of every
\* visited state, exactly once: at the end of step n a pair last taken at
\* step t has actor trace (discount * decay)^(n - t + 1), and a state last
\* left at step t has that critic trace, whatever the history repeats.
C9_TraceDecaysOncePerStep ==
    (TableRun /\ SweepDone) =>
        \A i \in 1..Len(episode) :
            LET t == LastIndex(episode, episode[i], Len(episode))
                ts == LastIndex(VisitedStates, episode[i][1], Len(episode))
                g == RMul(discount_rate, decay_factor)
            IN /\ actor.eligibilities[episode[i]] = RPow(g, step - t + 1)
               /\ critic.eligibilities[episode[i][1]] = RPow(g, step - ts + 1)

\* C10: each step sets the actor trace of the pair just taken and the critic
\* trace of the current state to 1 before the sweep starts; the step raises
\* no other trace entry, and the sweep raises none.
C10_MarkBeforeSweep ==
    /\ []((TableRun /\ SweepStart) =>
            /\ actor.eligibilities[<<current_state, current_action>>] = One
            /\ critic.eligibilities[current_state] = One)
    /\ [][(TableRun /\ pc = "while" /\ pc' \in {"sweep", "error"}) =>
             /\ \A k \in DOMAIN actor'.eligibilities :
                   (pc' = "error" \/ k # <<current_state, current_action>>) =>
                       actor'.eligibilities[k] =
                           (IF k \in DOMAIN actor.eligibilities
                            THEN actor.eligibilities[k] ELSE Zero)
             /\ \A s \in DOMAIN critic'.eligibilities :
                   (pc' = "error" \/ s # current_state) =>
                       critic'.eligibilities[s] =
                           (IF s \in DOMAIN critic.eligibilities
                            THEN critic.eligibilities[s] ELSE Zero)]_vars
    /\ [][(TableRun /\ pc = "sweep") =>
             /\ DOMAIN actor'.eligibilities = DOMAIN actor.eligibilities
             /\ DOMAIN critic'.eligibilities = DOMAIN critic.eligibilities
             /\ \A k \in DOMAIN actor.eligibilities :
                   ~RLess(actor.eligibilities[k], actor'.eligibilities[k])
             /\ \A s \in DOMAIN critic.eligibilities :
                   ~RLess(critic.eligibilities[s], critic'.eligibilities[s])]_vars

\* a sweep starts on a pair taken before in the episode, whose trace had
\* decayed, while another pair still carries a decayed trace
C10_Witness ==
    /\ TableRun
    /\ SweepStart
    /\ step = 3
    /\ episode[1] = episode[3]
    /\ episode[2] # episode[3]
    /\ actor.eligibilities[episode[2]] \notin {Zero, One}

\* C11: the sweep visits the history oldest first, the pair just appended
\* last; each entry updates the critic value from the critic trace as it
\* stands, then decays that trace, then updates the preference from the
\* actor trace as it stands, then decays that trace, so an entry reads what
\* earlier entries of the same sweep wrote; nothing else changes.
C11_SequentialSweep ==
    /\ []((TableRun /\ pc = "sweep") =>
            /\ Len(episode) = step
            /\ idx \in 1..(Len(episode) + 1)
            /\ episode[Len(episode)] = <<current_state, current_action>>)
    /\ [][(TableRun /\ pc = "while" /\ pc' = "sweep") =>
             /\ idx' = 1
             /\ episode' = Append(episode, <<current_state, current_action>>)]_vars
    /\ [][(TableRun /\ pc = "sweep" /\ pc' = "sweep") =>
             LET k == episode[idx]
                 s == k[1]
                 g == RMul(discount_rate, decay_factor)
                 v == critic.state_values
                 e == critic.eligibilities
                 p == actor.policy
                 t == actor.eligibilities
             IN /\ idx <= Len(episode)
                /\ idx' = idx + 1
                /\ episode' = episode
                /\ critic'.state_values =
                      [x \in DOMAIN v |->
                          IF x = s THEN RAdd(v[s], RMul(RMul(critic_lr, td_error), e[s]))
                          ELSE v[x]]
                /\ critic'.eligibilities =
                      [x \in DOMAIN e |-> IF x = s THEN RMul(e[s], g) ELSE e[x]]
                /\ actor'.policy =
                      [x \in DOMAIN p |->
                          IF x = k THEN RAdd(p[k], RMul(RMul(actor_lr, td_error), t[k]))
                          ELSE p[x]]
                /\ actor'.eligibilities =
                      [x \in DOMAIN t |-> IF x = k THEN RMul(t[k], g) ELSE t[x]]
                /\ actor'.state_actions = actor.state_actions]_vars

\* the sweep of a third step is over; the history repeats a state, so a later
\* entry read what an earlier one wrote, and the TD error was not zero
C11_Witness ==
    /\ TableRun
    /\ SweepDone
    /\ step = 3
    /\ episode[1][1] = episode[3][1]
    /\ episode[1] # episode[3]
    /\ td_error # Zero
    /\ \E k \in DOMAIN actor.policy : actor.policy[k] # Zero

\* C12: for a registered state with a non-empty action list, propose_action
\* with epsilon = 0 has one possible result whatever the random source does:
\* the first action of the list whose preference / |actions| is not exceeded
\* by any other action of the list.
C12_GreedyIsFirstMaximizer ==
    \A s \in DOMAIN actor.state_actions :
        LET actions == actor.state_actions[s]
            n == Len(actions)
            val(i) == RDivInt(actor.policy[<<s, actions[i]>>], n)
            IsMax(i) == \A j \in 1..n : ~RLess(val(i), val(j))
        IN n > 0 =>
             \E i \in 1..n :
                /\ IsMax(i)
                /\ \A j \in 1..(i - 1) : ~IsMax(j)
                /\ ProposeAction(actor, s, Zero) = {actions[i]}

\* a run with epsilon 0 has just proposed the second action of S0, whose
\* preference is strictly above the first's
C12_Witness ==
    /\ TableRun
    /\ epsilon = Zero
    /\ pc = "sweep"
    /\ proposed = <<"S0", "b">>
    /\ actor.state_actions["S0"] = <<"a", "b">>
    /\ RLess(actor.policy[<<"S0", "a">>], actor.policy[<<"S0", "b">>])

\* C13: with a critic_type other than "table" the first call of fit ends in
\* an error, for every configured number of episodes, before any Domain
\* operation: such a run never returns normally and calls no Domain method.
C13_UnsupportedCriticIsFatal ==
    (critic_type # "table") =>
        /\ dom_calls = <<>>
        /\ ~(pc = "idle" /\ fit_calls > 0)

\* C14: an empty legal-action list for a non-terminal state ends fit in an
\* error for every epsilon: the run never stands in its step loop on such a
\* state, and generate_child_state is never called with a non-action.
C14_EmptyListIsFatal ==
    TableRun =>
        /\ pc \in {"while", "sweep"} =>
              ~(/\ ~is_current_state_terminal(dom_state)
                /\ actor.state_actions[dom_state] = <<>>)
        /\ \A i \in 1..Len(dom_calls) : dom_calls[i] # <<"generate_child_state", None>>

\* C15: Domain.visualise is called only when an episode ends, as the last
\* Domain call of that episode, and exactly when the episode is number 0 or
\* number episodes-1 (one call when both coincide); the end of an episode,
\* with or without the call, leaves every policy, value and trace entry as
\* it was, and epsilon is the decayed value either way.
C15_VisualiseFirstAndLastOnly ==
    /\ [](TableRun =>
            /\ \A i \in 1..Len(dom_calls) :
                  dom_calls[i][1] = "visualise" =>
                      /\ pc = "loop"
                      /\ i = Len(dom_calls)
                      /\ episode_count - 1 \in {0, max_episodes - 1}
            /\ (pc = "loop" /\ episode_count >= 1) =>
                  /\ dom_calls # <<>>
                  /\ (episode_count - 1 \in {0, max_episodes - 1})
                        => dom_calls[Len(dom_calls)] = <<"visualise", None>>)
    /\ [][(TableRun /\ pc = "while" /\ pc' = "loop") =>
            /\ actor' = actor
            /\ critic' = critic
            /\ epsilon' = RMul(epsilon, epsilon_decay)
            /\ episode_count' = episode_count + 1]_vars

C15_Witness ==
    /\ TableRun
    /\ max_episodes = 3
    /\ pc = "loop"
    /\ episode_count = 2
    /\ dom_calls # <<>>
    /\ \A i \in 1..Len(dom_calls) : dom_calls[i][1] # "visualise"

\* the first action of acts whose preference in p is not exceeded, None for
\* an empty list
FirstMaximizer(p, s, acts) ==
    IF acts = <<>> THEN None
    ELSE LET IsMax(i) == \A j \in 1..Len(acts) : ~RLess(p[<<s, acts[i]>>], p[<<s, acts[j]>>])
         IN acts[CHOOSE i \in 1..Len(acts) : IsMax(i) /\ \A j \in 1..(i - 1) : ~IsMax(j)]

\* C16: a step that reaches its sweep sets the TD error once, to
\* reward + discount * value(successor) - value(current) over the critic
\* values at the start of the sweep, and proposes the successor's action from
\* the registered successor and the preferences at the start of the sweep;
\* reward, TD error and proposed action stay fixed through the sweep, every
\* sweep entry's value update uses that TD error, and the advance makes the
\* successor and exactly that action the current pair of the next step.
C16_TdErrorAndSuccessorAction ==
    /\ [][(TableRun /\ pc = "while" /\ pc' = "sweep") =>
            LET v == critic'.state_values
                acts == actor'.state_actions[successor_state']
            IN /\ successor_state' \in DOMAIN v
               /\ successor_state' \in DOMAIN actor'.state_actions
               /\ reinforcement' \in Reinforcements(successor_state')
               /\ td_error' = RSub(RAdd(reinforcement',
                                        RMul(discount_rate, v[successor_state'])),
                                   v[current_state])
               /\ actor'.policy = [k \in DOMAIN actor'.policy |->
                                     IF k \in DOMAIN actor.policy THEN actor.policy[k] ELSE Zero]
               /\ \/ /\ epsilon # One
                     /\ successor_action' = FirstMaximizer(actor'.policy, successor_state', acts)
                  \/ /\ epsilon # Zero
                     /\ \E i \in 1..Len(acts) : successor_action' = acts[i]
               /\ proposed' = <<successor_state', successor_action'>>]_vars
    /\ [][(TableRun /\ pc = "sweep") =>
            /\ td_error' = td_error
            /\ reinforcement' = reinforcement
            /\ successor_state' = successor_state
            /\ successor_action' = successor_action
            /\ (pc' = "sweep") =>
                  LET s == episode[idx][1]
                  IN critic'.state_values[s] =
                        RAdd(critic.state_values[s],
                             RMul(RMul(critic_lr, td_error), critic.eligibilities[s]))
            /\ (pc' = "while") =>
                  /\ current_state' = successor_state
                  /\ current_action' = successor_action
                  /\ <<current_state', current_action'>> = proposed]_vars

C16_Witness ==
    /\ TableRun
    /\ SweepDone
    /\ epsilon = Zero
    /\ td_error # Zero
    /\ \E i \in 1..Len(episode) : episode[i][1] = successor_state
    /\ successor_action # FirstMaximizer(actor.policy, successor_state,
                                         actor.state_actions[successor_state])

\* the pairs and the states of the history h
PairsOf(h) == {h[i] : i \in 1..Len(h)}

StatesOf(h) == {h[i][1] : i \in 1..Len(h)}

\* C17: inside an episode every pair and every state that does not occur in
\* the episode's history has trace 0, and a step (its registration, marking,
\* sweep entries and advance) leaves the preference of every pair and the
\* value of every state outside the history as it was, a newly registered
\* pair starting at preference 0 and a newly registered state at its drawn
\* initial value; no entry is ever removed.
C17_StepFrame ==
    /\ []((TableRun /\ pc \in {"while", "sweep"}) =>
            /\ \A k \in DOMAIN actor.eligibilities :
                  k \notin PairsOf(episode) => actor.eligibilities[k] = Zero
            /\ \A s \in DOMAIN critic.eligibilities :
                  s \notin StatesOf(episode) => critic.eligibilities[s] = Zero)
    /\ [][(TableRun /\ pc \in {"while", "sweep"} /\ pc' \in {"while", "sweep", "error"}) =>
            /\ DOMAIN actor.policy \subseteq DOMAIN actor'.policy
            /\ DOMAIN critic.state_values \subseteq DOMAIN critic'.state_values
            /\ \A k \in DOMAIN actor'.policy :
                  k \notin PairsOf(episode') =>
                      actor'.policy[k] = IF k \in DOMAIN actor.policy
                                         THEN actor.policy[k] ELSE Zero
            /\ \A s \in DOMAIN critic'.state_values :
                  s \notin StatesOf(episode') =>
                      IF s \in DOMAIN critic.state_values
                      THEN critic'.state_values[s] = critic.state_values[s]
                      ELSE critic'.state_values[s] \in UniformDraws]_vars

C17_Witness ==
    /\ TableRun
    /\ SweepDone
    /\ episode_count = 1
    /\ td_error # Zero
    /\ \E k \in DOMAIN actor.policy \ PairsOf(episode) : actor.policy[k] # Zero
    /\ \E k \in PairsOf(episode) : k \in DOMAIN actor.policy /\ actor.policy[k] # Zero
    /\ \E s \in DOMAIN critic.state_values \ StatesOf(episode) :
          critic.state_values[s] \notin UniformDraws

\* C18: a step whose successor is terminal with an empty legal-action list
\* completes for every epsilon: once generate_child_state has handed out
\* such a successor for a proper action, fit is not in an error.
C18_TerminalSuccessorCompletes ==
    (/\ TableRun
     /\ dom_calls # <<>>
     /\ dom_calls[Len(dom_calls)][1] = "generate_child_state"
     /\ dom_calls[Len(dom_calls)][2] # None
     /\ is_current_state_terminal(dom_state)
     /\ actor.state_actions[dom_state] = <<>>)
    => pc # "error"

====
